---- MODULE Spec2Model ----
(***************************************************************************)
(* rlxnix.TraceContainer (src/rlxnix/trace_container.py): a read facade    *)
(* over one tagged region (nixio Tag, or one entry of a nixio MultiTag) of *)
(* a recording.  Time is counted in integer ticks; a sampled trace has a   *)
(* sampling interval of a whole number of ticks and offset 0.              *)
(*                                                                         *)
(* Python values are encoded as follows.  An optional value is a sequence  *)
(* of length at most one: None is <<>>, a present value x is <<x>>.  A     *)
(* call's outcome is a record whose field kind is "return" or "raise".     *)
(* Indices are 0-based as in the code; TLA+ sequences are 1-based.         *)
(***************************************************************************)
EXTENDS Integers, Sequences, FiniteSets, TLC

VARIABLES file, container, last, ephys

vars == <<file, container, last, ephys>>

\* ------------------------------------------------------------ bounds
\* Largest region start (ticks).
MaxTime == 2
\* Largest region extent (ticks).
MaxDur == 3
\* Largest number of entries of a MultiTag.
MaxPos == 2
\* Largest number of traces a region references.
MaxRefs == 2

\* ------------------------------------------------------------ helpers
None == <<>>
Some(x) == <<x>>

Return(v) == [kind |-> "return", value |-> v, exc |-> ""]
Raise(e) == [kind |-> "raise", value |-> None, exc |-> e]

\* Python's LookupError and its subclasses, as raised by the store's containers.
LookupErrors == {"IndexError", "KeyError"}

ByIndex(i) == [by |-> "index", i |-> i, n |-> ""]
ByName(n) == [by |-> "name", i |-> 0, n |-> n]

\* TimeReference enum.
TimeReference == {"repro_start", "zero"}

\* s is a contiguous part of t (Python: s in t, on type labels split at ".").
Contains(s, t) ==
    \E k \in 0..(Len(t) - Len(s)) : \A j \in 1..Len(s) : t[k + j] = s[j]

\* mappings.type_map[version][DataType.continuous]
Versions == {"1.0", "1.1"}
type_map(version) ==
    IF version = "1.0" THEN <<"nix", "data", "sampled">>
    ELSE <<"relacs", "data", "sampled">>

\* ------------------------------------------------------------ the recording
\* The recording covers every region: [0, RecEnd].
RecEnd == MaxTime + MaxDur

RECURSIVE UpTo(_)
UpTo(n) == IF n < 0 THEN <<>> ELSE Append(UpTo(n - 1), n)

\* A sampled data array: one value per grid point k * interval <= RecEnd.
Sampled(name, type, interval, base) ==
    [name |-> name, type |-> type, dim |-> "sample", interval |-> interval,
     data |-> [k \in 1..(RecEnd \div interval + 1) |-> base + (k - 1)]]

\* An event data array: its values are the event times (ascending); its
\* range dimension is the array itself.
EventTimes == SelectSeq(UpTo(RecEnd), LAMBDA t : t % 3 # 1)
Events(name, type) ==
    [name |-> name, type |-> type, dim |-> "range", interval |-> 0,
     data |-> EventTimes]

DataArrays ==
    [V |-> Sampled("V-1", <<"relacs", "data", "sampled", "V-1">>, 2, 10),
     E |-> Sampled("EOD", <<"nix", "data", "sampled", "EOD">>, 1, 40),
     S |-> Events("Spikes-1", <<"relacs", "data", "event", "Spikes-1">>)]

\* The reference lists a region may carry: a prefix of the block's arrays in
\* one of two orders.
RefLists ==
    { SubSeq(o, 1, n) : o \in {<<"V", "S", "E">>, <<"E", "S", "V">>},
                        n \in 0..(IF MaxRefs < 3 THEN MaxRefs ELSE 3) }

Features ==
    <<[name |-> "delay", type |-> "relacs.feature", data |-> <<7, 8, 9>>],
      [name |-> "contrast", type |-> "relacs.feature", data |-> <<5>>]>>

\* Strictly ascending sequences over 0..MaxTime of length n (stimulus onsets).
RECURSIVE Ascending(_, _)
Ascending(n, lo) ==
    IF n = 0 THEN {<<>>}
    ELSE UNION { { <<t>> \o s : s \in Ascending(n - 1, t + 1) } : t \in lo..MaxTime }

SeqsOf(S, n) == [1..n -> S]

Tags ==
    { [kind |-> "Tag", position |-> <<t>>, extent |-> e]
        : t \in 0..MaxTime, e \in {<<>>} \cup { <<d>> : d \in 0..MaxDur } }

\* The stimuli of a MultiTag are presented one after another: an entry ends
\* before the next begins.
Sequential(p, x) == \A k \in 1..(Len(p) - 1) : p[k] + x[k] <= p[k + 1]

\* The extents a MultiTag with positions p may carry: none, or one per entry.
ExtentsFor(p) ==
    {None} \cup { Some(x) : x \in { y \in SeqsOf(0..MaxDur, Len(p)) : Sequential(p, y) } }

MultiTags ==
    UNION { UNION { { [kind |-> "MultiTag", position |-> p, extent |-> e]
                        : e \in ExtentsFor(p) }
                    : p \in Ascending(n, 0) }
            : n \in 0..MaxPos }

\* ------------------------------------------------------------ the store (nixio)
\* Container.__getitem__ of tag.references / tag.features: an int is a
\* position (IndexError when out of range), anything else a name (KeyError
\* when no entry carries it).  Returns the 1-based position found.
Lookup(names, ident) ==
    IF ident.by = "index"
    THEN IF ident.i \in 0..(Len(names) - 1) THEN Return(ident.i + 1)
         ELSE Raise("IndexError")
    ELSE IF \E k \in 1..Len(names) : names[k] = ident.n
         THEN Return(CHOOSE k \in 1..Len(names) : names[k] = ident.n)
         ELSE Raise("KeyError")

\* The absolute time of element k (1-based) of a data array.
Timestamp(da, k) == IF da.dim = "sample" THEN (k - 1) * da.interval ELSE da.data[k]

\* DataArray.get_slice([start], [extent], DataSliceMode.Data): the positions
\* of the elements whose time lies in [start, start + extent), ascending.
get_slice(da, start, extent) ==
    SelectSeq([k \in 1..Len(da.data) |-> k],
              LAMBDA k : start <= Timestamp(da, k) /\ Timestamp(da, k) < start + extent)

\* SampledDimension.index_of(position): the grid index at or next to a
\* position; which neighbour is the store's rounding mode.
index_of(da, position, mode) ==
    IF mode = "leq" THEN position \div da.interval
    ELSE (position + da.interval - 1) \div da.interval

\* SampledDimension.axis(count, start_position=p): count grid times from
\* index_of(p) on.
axis(da, count, start_position, mode) ==
    [j \in 1..count |-> (index_of(da, start_position, mode) + (j - 1)) * da.interval]

\* The positional parameters of feature_data: Tag.feature_data(featidx),
\* MultiTag.feature_data(posidx, featidx).
FeatureDataArity(kind) == IF kind = "MultiTag" THEN 2 ELSE 1

\* tag.feature_data(*args) followed by [:].
tag_feature_data(tag, args) ==
    IF Len(args) # FeatureDataArity(tag.kind) THEN Raise("TypeError")
    ELSE LET found == Lookup([k \in 1..Len(tag.features) |-> tag.features[k].name],
                             args[Len(args)])
         IN  IF found.kind = "raise" THEN found
             ELSE Return(tag.features[found.value].data)

\* ------------------------------------------------------------ TraceContainer
\* bool(tag.extents) of a MultiTag: None and an empty array are false.
HasExtents(e) == e # None /\ Len(e[1]) > 0

Extent_First(tag, index) ==
    IF tag.kind = "MultiTag"
    THEN IF HasExtents(tag.extent) THEN tag.extent[1][1] ELSE 0
    ELSE IF tag.extent # <<>> THEN tag.extent[1] ELSE 0

\* self._duration: extents[index, 0][0] if extents else 0.0 (MultiTag),
\* extent[0] if extent else 0.0 (Tag).
Extent(tag, index) ==
    IF tag.kind = "MultiTag"
    THEN IF HasExtents(tag.extent) THEN tag.extent[1][index[1] + 1] ELSE 0
    ELSE IF tag.extent # <<>> THEN tag.extent[1] ELSE 0

\* The assignments of __init__, after its check: positions[index, 0] raises
\* IndexError when the MultiTag has no such entry.
TraceContainerBuild(f, index, version) ==
    LET tag == f.tag IN
    IF tag.kind = "MultiTag" /\ index[1] \notin 0..(Len(tag.position) - 1)
    THEN Raise("IndexError")
    ELSE Return([tag |-> tag.name, mapping_version |-> version, index |-> index,
                 start_time |-> IF tag.kind = "MultiTag" THEN tag.position[index[1] + 1]
                                ELSE tag.position[1],
                 duration |-> Extent(tag, index)])

TraceContainerInit_DefaultIndex(f, index, version) ==
    TraceContainerBuild(f, IF index = None THEN Some(0) ELSE index, version)

\* __init__(tag_or_mtag, index, relacs_nix_version)
TraceContainerInit(f, index, version) ==
    IF f.tag.kind = "MultiTag" /\ index = None THEN Raise("ValueError")
    ELSE TraceContainerBuild(f, index, version)

\* The names of the tag's references, in order.
RefNames(f) == [k \in 1..Len(f.tag.references) |-> f.arrays[f.tag.references[k]].name]

\* references property: (index, name, type) per referenced trace.
references(f) ==
    [k \in 1..Len(f.tag.references) |->
        <<k - 1, f.arrays[f.tag.references[k]].name, f.arrays[f.tag.references[k]].type>>]

\* features property: (index, name, type) per feature.
features(f) ==
    [k \in 1..Len(f.tag.features) |->
        <<k - 1, f.tag.features[k].name, f.tag.features[k].type>>]

StartPosition_AlwaysZero(c, reference) == 0

\* start_position = self.start_time if reference is repro_start else 0.0
StartPosition(c, reference) == IF reference = "repro_start" THEN c.start_time ELSE 0

IsContinuous_FixedMarker(c, da) == Contains(type_map("1.1"), da.type)

\* continuous_data_type in ref.type
IsContinuous(c, da) == Contains(type_map(c.mapping_version), da.type)

SliceOf_EndAsExtent(c, da) == get_slice(da, c.start_time, c.start_time + c.duration)

\* ref.get_slice([self.start_time], [self.duration], DataSliceMode.Data)
SliceOf(c, da) == get_slice(da, c.start_time, c.duration)

EventOffset_ByReference(c, reference) == StartPosition(c, reference)

\* data -= self.start_time
EventOffset(c, reference) == c.start_time

Shift(data, by) == [j \in 1..Len(data) |-> data[j] - by]

\* trace_data once the reference is resolved (found: its 1-based position).
\* The returned value carries, beside data and time, the store positions the
\* data was read from (src) and the key of the resolved array (ref); these
\* two are bookkeeping of the model.
ReadTrace(f, c, found, reference) ==
    LET key == f.tag.references[found]
        ref == f.arrays[key]
        src == SliceOf(c, ref)
        data == [j \in 1..Len(src) |-> ref.data[src[j]]]
        start_position == StartPosition(c, reference)
    IN  IF IsContinuous(c, ref)
        THEN [data |-> data,
              time |-> Some(axis(ref, Len(data), start_position, f.indexMode)),
              src |-> src, ref |-> key]
        ELSE [data |-> Shift(data, EventOffset(c, reference)), time |-> None,
              src |-> src, ref |-> key]

trace_data_Swallow(f, c, ident, reference) ==
    LET found == Lookup(RefNames(f), ident) IN
    IF found.kind = "raise" THEN Return(None)
    ELSE Return(ReadTrace(f, c, found.value, reference))

\* trace_data(name_or_index, reference): self._tag.references[name_or_index]
\* raises out of the method when the identifier does not resolve.
trace_data(f, c, ident, reference) ==
    LET found == Lookup(RefNames(f), ident) IN
    IF found.kind = "raise" THEN found
    ELSE Return(ReadTrace(f, c, found.value, reference))

FileAfterTraceData_InPlace(f, c, ident, reference) ==
    LET out == trace_data(f, c, ident, reference) IN
    IF out.kind = "return" /\ out.value.time = None
    THEN [f EXCEPT !.arrays[out.value.ref].data =
            [k \in 1..Len(@) |->
                IF \E j \in 1..Len(out.value.src) : out.value.src[j] = k
                THEN @[k] - c.start_time ELSE @[k]]]
    ELSE f

\* What trace_data leaves in the store: [:] reads the slice into a fresh
\* array, so the subtraction never reaches the file.
FileAfterTraceData(f, c, ident, reference) == f

\* feature_data(name_or_index)
feature_data(f, c, ident) == tag_feature_data(f.tag, <<ident>>)

\* ------------------------------------------------------------ state machine
NoCall == [op |-> "none", ident |-> None, reference |-> "", index |-> None,
           version |-> "", out |-> Return(None)]

\* No EfishEphys wrapper exists beside a bare TraceContainer.
NoEphys == [made |-> FALSE]

Init ==
    /\ \E tag \in Tags \cup MultiTags, refs \in RefLists, mode \in {"leq", "geq"} :
         file = [tag |-> [kind |-> tag.kind, name |-> "SAM_1", type |-> "relacs.repro_run",
                          position |-> tag.position, extent |-> tag.extent,
                          references |-> refs, features |-> Features],
                 arrays |-> DataArrays, indexMode |-> mode]
    /\ container = None
    /\ last = NoCall
    /\ ephys = NoEphys

Ready == container # None
Self == container[1]

Called(op, out) == [NoCall EXCEPT !.op = op, !.out = out]

\* TraceContainer(tag_or_mtag, index, relacs_nix_version)
Construct ==
    /\ container = None
    /\ last.op = "none"
    /\ \E index \in {None} \cup { Some(i) : i \in 0..MaxPos }, version \in Versions :
         LET out == TraceContainerInit(file, index, version) IN
         /\ container' = IF out.kind = "return" THEN Some(out.value) ELSE None
         /\ last' = [Called("__init__", out) EXCEPT !.index = index, !.version = version]
    /\ UNCHANGED <<file, ephys>>

GetName ==
    /\ Ready
    /\ last' = Called("name", Return(file.tag.name))
    /\ UNCHANGED <<file, container, ephys>>

GetType ==
    /\ Ready
    /\ last' = Called("type", Return(file.tag.type))
    /\ UNCHANGED <<file, container, ephys>>

GetStartTime ==
    /\ Ready
    /\ last' = Called("start_time", Return(Self.start_time))
    /\ UNCHANGED <<file, container, ephys>>

GetDuration ==
    /\ Ready
    /\ last' = Called("duration", Return(Self.duration))
    /\ UNCHANGED <<file, container, ephys>>

GetReproTag ==
    /\ Ready
    /\ last' = Called("repro_tag", Return(file.tag.name))
    /\ UNCHANGED <<file, container, ephys>>

GetReferences ==
    /\ Ready
    /\ last' = Called("references", Return(references(file)))
    /\ UNCHANGED <<file, container, ephys>>

GetFeatures ==
    /\ Ready
    /\ last' = Called("features", Return(features(file)))
    /\ UNCHANGED <<file, container, ephys>>

\* The identifiers tried: every position up to one past the longest list,
\* every array name of the block, and a name nothing carries.
TraceIdents ==
    { ByIndex(i) : i \in 0..(MaxRefs + 1) }
      \cup { ByName(DataArrays[k].name) : k \in DOMAIN DataArrays }
      \cup { ByName("nonexistent") }

FeatureIdents ==
    { ByIndex(i) : i \in 0..Len(Features) }
      \cup { ByName(Features[k].name) : k \in 1..Len(Features) }
      \cup { ByName("nonexistent") }

TraceData ==
    /\ Ready
    /\ \E ident \in TraceIdents, reference \in TimeReference :
         /\ last' = [Called("trace_data", trace_data(file, Self, ident, reference))
                       EXCEPT !.ident = Some(ident), !.reference = reference]
         /\ file' = FileAfterTraceData(file, Self, ident, reference)
    /\ UNCHANGED <<container, ephys>>

FeatureData ==
    /\ Ready
    /\ \E ident \in FeatureIdents :
         last' = [Called("feature_data", feature_data(file, Self, ident))
                    EXCEPT !.ident = Some(ident)]
    /\ UNCHANGED <<file, container, ephys>>

Next ==
    \/ Construct
    \/ GetName
    \/ GetType
    \/ GetStartTime
    \/ GetDuration
    \/ GetReproTag
    \/ GetReferences
    \/ GetFeatures
    \/ TraceData
    \/ FeatureData

Spec == Init /\ [][Next]_vars

\* ------------------------------------------------------------ properties
\* The last call was trace_data and it returned.
TraceReturned == last.op = "trace_data" /\ last.out.kind = "return"
\* What it returned, the array it resolved to, and the container's region.
Got == last.out.value
GotArray == file.arrays[Got.ref]
T == Self.start_time
D == Self.duration
OtherReference(r) == IF r = "zero" THEN "repro_start" ELSE "zero"
Abs(x) == IF x < 0 THEN -x ELSE x

\* C1: every value trace_data returns is the value of a store element whose
\* absolute time lies in [start_time, start_time + duration) (an event value
\* is compared after adding start_time back); with duration 0 the data is empty.
C1_SliceWithinRegion ==
    TraceReturned =>
        /\ \A j \in 1..Len(Got.data) :
             \E k \in 1..Len(GotArray.data) :
                /\ GotArray.data[k] = (IF Got.time = None THEN Got.data[j] + T ELSE Got.data[j])
                /\ T <= Timestamp(GotArray, k)
                /\ Timestamp(GotArray, k) < T + D
        /\ (D = 0 => Got.data = <<>>)

\* A slice that is neither empty nor the whole array, of a region starting after 0.
C1_Witness ==
    /\ TraceReturned
    /\ T > 0
    /\ Len(Got.data) >= 1
    /\ Len(Got.data) < Len(GotArray.data)

\* C2: for a continuous trace, the time axis starts within one sampling
\* interval of start_time under repro_start and of 0 under zero, and the call
\* with the other reference returns the same sample values.
C2_ReferenceFrame ==
    (TraceReturned /\ Got.time # None) =>
        /\ Len(Got.time[1]) > 0 =>
             Abs(Got.time[1][1] - (IF last.reference = "repro_start" THEN T ELSE 0))
                <= GotArray.interval
        /\ LET other == trace_data(file, Self, last.ident[1], OtherReference(last.reference))
           IN  other.kind = "return" /\ other.value.data = Got.data

\* A continuous trace read under repro_start from a region that starts off
\* the sampling grid.
C2_Witness ==
    /\ TraceReturned
    /\ Got.time # None
    /\ last.reference = "repro_start"
    /\ T % GotArray.interval # 0
    /\ Len(Got.data) >= 1

\* C3: for an event trace, every returned time is the stored absolute time
\* minus start_time, and the call with the other reference returns the same.
C3_EventOffset ==
    (TraceReturned /\ GotArray.dim = "range") =>
        /\ Len(Got.data) = Len(Got.src)
        /\ \A j \in 1..Len(Got.data) : Got.data[j] = GotArray.data[Got.src[j]] - T
        /\ LET other == trace_data(file, Self, last.ident[1], OtherReference(last.reference))
           IN  /\ other.kind = "return"
               /\ other.value.data = Got.data
               /\ other.value.time = Got.time

\* Events read under zero from a region that starts after 0.
C3_Witness ==
    /\ TraceReturned
    /\ GotArray.dim = "range"
    /\ last.reference = "zero"
    /\ T > 0
    /\ Len(Got.data) >= 2

\* C4: trace_data returns a time axis exactly when the type label contains
\* the continuous marker of the container's mapping version; the axis has one
\* point per data value, one sampling interval apart, starting within one
\* interval of start_position.
C4_Dispatch ==
    TraceReturned =>
        /\ (Got.time # None) <=> Contains(type_map(Self.mapping_version), GotArray.type)
        /\ Got.time # None =>
             LET time == Got.time[1] IN
             /\ Len(time) = Len(Got.data)
             /\ \A j \in 1..(Len(time) - 1) : time[j + 1] - time[j] = GotArray.interval
             /\ Len(time) > 0 =>
                  Abs(time[1] - (IF last.reference = "repro_start" THEN T ELSE 0))
                     < GotArray.interval

\* A continuous trace with at least two samples in the region.
C4_Witness ==
    /\ TraceReturned
    /\ Got.time # None
    /\ Len(Got.time[1]) >= 2
    /\ Self.mapping_version = "1.0"

\* C5: construction from a MultiTag without an index raises ValueError and
\* leaves no container; construction from a Tag without an index succeeds.
C5_IndexRequired ==
    (last.op = "__init__" /\ last.index = None) =>
        IF file.tag.kind = "MultiTag"
        THEN last.out = Raise("ValueError") /\ container = None
        ELSE last.out.kind = "return" /\ container = Some(last.out.value)

\* A MultiTag with entries, constructed without an index.
C5_Witness ==
    /\ last.op = "__init__"
    /\ last.index = None
    /\ file.tag.kind = "MultiTag"
    /\ Len(file.tag.position) = MaxPos
    /\ last.out.kind = "raise"

\* C6: a constructed container holds the Tag's position and extent, or entry
\* `index` of the MultiTag's positions and extents; without extent
\* information the duration is 0 and construction still succeeds.
C6_StartAndDuration ==
    last.op = "__init__" =>
        LET tag == file.tag
            noExtent == IF tag.kind = "MultiTag"
                        THEN tag.extent = None \/ tag.extent = Some(<<>>)
                        ELSE tag.extent = <<>>
        IN  /\ last.out.kind = "return" =>
                 /\ Ready
                 /\ IF tag.kind = "MultiTag"
                    THEN /\ T = tag.position[last.index[1] + 1]
                         /\ ~noExtent => D = tag.extent[1][last.index[1] + 1]
                    ELSE /\ T = tag.position[1]
                         /\ ~noExtent => D = tag.extent[1]
                 /\ noExtent => D = 0
            /\ (noExtent /\ (tag.kind = "Tag" \/
                    (last.index # None /\ last.index[1] < Len(tag.position))))
                  => last.out.kind = "return"

\* The second entry of a MultiTag whose two extents differ.
C6_Witness ==
    /\ last.op = "__init__"
    /\ last.out.kind = "return"
    /\ file.tag.kind = "MultiTag"
    /\ last.index = Some(1)
    /\ file.tag.extent # None
    /\ file.tag.extent[1][1] # file.tag.extent[1][2]

\* C7: after a trace_data call that resolved position i, a call with the
\* other form of the identifier (the name references[i] records, or i
\* itself) returns what that call returned.
C7_LookupStable ==
    last.op = "trace_data" =>
        LET ident == last.ident[1]
            found == Lookup(RefNames(file), ident)
        IN  found.kind = "return" =>
              /\ trace_data(file, Self, ByIndex(found.value - 1), last.reference) = last.out
              /\ trace_data(file, Self, ByName(references(file)[found.value][2]),
                            last.reference) = last.out

\* Events read by position from a region that starts after 0.
C7_Witness ==
    /\ TraceReturned
    /\ last.ident[1].by = "index"
    /\ Got.time = None
    /\ GotArray.dim = "range"
    /\ T > 0
    /\ Len(Got.data) >= 1

\* Whether an identifier names no reference of the tag.
Unresolved(ident) ==
    IF ident.by = "index" THEN ident.i >= Len(file.tag.references)
    ELSE \A k \in 1..Len(file.tag.references) : references(file)[k][2] # ident.n

\* C8: trace_data with a name no reference carries, or with a position past
\* the last reference, raises the store's LookupError; it returns nothing.
C8_UnresolvedRaises ==
    (last.op = "trace_data" /\ Unresolved(last.ident[1])) =>
        /\ last.out.kind = "raise"
        /\ last.out.exc \in LookupErrors

\* A name nothing carries, asked of a region that references traces.
C8_Witness ==
    /\ last.op = "trace_data"
    /\ last.ident[1] = ByName("nonexistent")
    /\ Len(file.tag.references) = MaxRefs
    /\ last.out.kind = "raise"

\* C9: once a container is constructed, no call changes its fields or the
\* backing store.
C9_ReadOnly == [][container # None => (container' = container /\ file' = file)]_vars

\* An event read that subtracted a nonzero start_time.
C9_Witness ==
    /\ TraceReturned
    /\ Got.time = None
    /\ T > 0
    /\ Len(Got.data) >= 1
    /\ last.reference = "repro_start"

\* C10: feature_data with a resolvable identifier returns the feature's whole
\* data, and with an unresolved one raises the store's LookupError, for a
\* container of a Tag and of a MultiTag alike.
C10_FeatureData ==
    last.op = "feature_data" =>
        LET found == Lookup([k \in 1..Len(file.tag.features) |-> file.tag.features[k].name],
                            last.ident[1])
        IN  IF found.kind = "return"
            THEN last.out = Return(file.tag.features[found.value].data)
            ELSE last.out.kind = "raise" /\ last.out.exc \in LookupErrors

\* ------------------------------------------------------------ EfishEphys
\* A recording with two event traces beside the sampled ones.
EphysArrays ==
    [V |-> DataArrays.V,
     S |-> DataArrays.S,
     U |-> [name |-> "Spikes-2", type |-> <<"relacs", "data", "event", "Spikes-2">>,
            dim |-> "range", interval |-> 0,
            data |-> SelectSeq(UpTo(RecEnd), LAMBDA t : t % 2 = 1)]]

\* The reference lists of a repro run: with and without the trace the
\* configuration names for the signal "spikes".
EphysRefLists == { <<"V", "S", "U">>, <<"U", "V">> }

\* _get_signal_trace_map: the configured trace of "spikes", when the run has it.
SpikesTraceNames == {"Spikes-1"}
signal_trace_map_spikes(f) ==
    IF \E k \in 1..Len(RefNames(f)) : RefNames(f)[k] \in SpikesTraceNames
    THEN Some(CHOOSE n \in SpikesTraceNames : \E k \in 1..Len(RefNames(f)) : RefNames(f)[k] = n)
    ELSE None

\* ReProRun._check_trace(trace_name, DataType.Event): the name is given, the
\* run references it, and it is an event trace.
check_trace_event(f, name) ==
    /\ name # None
    /\ \E k \in 1..Len(RefNames(f)) :
          /\ RefNames(f)[k] = name[1]
          /\ f.arrays[f.tag.references[k]].dim = "range"

\* ReProRun._check_stimulus(stimulus_index)
check_stimulus(stimuli, i) == i \in 0..(Len(stimuli) - 1)

\* The file as a stimulus container sees it: its tag is the stimulus MultiTag.
StimulusFile(f, e) == [f EXCEPT !.tag = e.mtag]

\* if self._spike_times is not None and stimulus_index is None
UseCache(e, stimulus_index, trace_name) == e.spike_times # None /\ stimulus_index = None

\* spikes(stimulus_index, trace_name): what it returns.
spikes(f, e, stimulus_index, trace_name) ==
    IF UseCache(e, stimulus_index, trace_name) THEN Return(e.spike_times)
    ELSE LET name == IF trace_name = None THEN signal_trace_map_spikes(f) ELSE trace_name IN
         IF ~check_trace_event(f, name) THEN Return(None)
         ELSE IF stimulus_index # None
         THEN IF ~check_stimulus(e.stimuli, stimulus_index[1]) THEN Raise("IndexError")
              ELSE LET out == trace_data(StimulusFile(f, e), e.stimuli[stimulus_index[1] + 1],
                                         ByName(name[1]), "zero")
                   IN  IF out.kind = "raise" THEN out ELSE Return(Some(out.value.data))
         ELSE LET out == trace_data(f, e.run, ByName(name[1]), "zero")
              IN  IF out.kind = "raise" THEN out ELSE Return(Some(out.value.data))

\* spikes(stimulus_index, trace_name): self._spike_times after the call.
SpikeTimesAfter(f, e, stimulus_index, trace_name) ==
    LET out == spikes(f, e, stimulus_index, trace_name) IN
    IF /\ ~UseCache(e, stimulus_index, trace_name)
       /\ stimulus_index = None
       /\ out.kind = "return"
       /\ out.value # None
    THEN out.value
    ELSE e.spike_times

\* The stimulus containers of a run: one per entry of the stimulus MultiTag.
StimuliOf(f, mtag) ==
    [k \in 1..Len(mtag.position) |->
        TraceContainerBuild([f EXCEPT !.tag = mtag], Some(k - 1), "1.1").value]

NoSpikes == [stimulus_index |-> None, trace_name |-> None, out |-> Return(None), called |-> FALSE]

\* EfishEphys.__init__(repro_run, traces): a run over a Tag with an extent,
\* its stimuli within it, no spike times cached.
InitEphys ==
    /\ \E tag \in { t \in Tags : t.extent # <<>> },
          mt \in { m \in MultiTags : Len(m.position) > 0 /\ m.extent # None },
          refs \in EphysRefLists :
         LET run == [kind |-> "Tag", name |-> "SAM_1", type |-> "relacs.repro_run",
                     position |-> tag.position, extent |-> tag.extent,
                     references |-> refs, features |-> Features]
             f == [tag |-> run, arrays |-> EphysArrays, indexMode |-> "geq"]
             mtag == [kind |-> "MultiTag", name |-> "SAM_1_stimuli", type |-> "relacs.stimulus",
                      position |-> mt.position, extent |-> mt.extent,
                      references |-> refs, features |-> Features]
         IN  /\ file = f
             /\ container = Some(TraceContainerBuild(f, None, "1.1").value)
             /\ ephys = [made |-> TRUE, run |-> TraceContainerBuild(f, None, "1.1").value,
                         mtag |-> mtag, stimuli |-> StimuliOf(f, mtag),
                         spike_times |-> None, last |-> NoSpikes]
    /\ last = NoCall

\* The arguments tried: every stimulus position up to one past the last, or
\* none; every trace name of the recording, a name nothing carries, or none.
Spikes ==
    /\ ephys.made
    /\ \E stimulus_index \in {None} \cup { Some(i) : i \in 0..MaxPos },
          trace_name \in {None, Some("nonexistent")}
                           \cup { Some(EphysArrays[k].name) : k \in DOMAIN EphysArrays } :
         ephys' = [ephys EXCEPT
                     !.spike_times = SpikeTimesAfter(file, ephys, stimulus_index, trace_name),
                     !.last = [stimulus_index |-> stimulus_index, trace_name |-> trace_name,
                               out |-> spikes(file, ephys, stimulus_index, trace_name),
                               called |-> TRUE]]
    /\ UNCHANGED <<file, container, last>>

NextEphys ==
    \/ Spikes

SpecEphys == InitEphys /\ [][NextEphys]_vars

\* The trace a spikes call is about: the one named, or the configured one.
AskedTrace == IF ephys.last.trace_name = None THEN signal_trace_map_spikes(file)
              ELSE ephys.last.trace_name

\* C11: whatever spikes calls came before, a spikes call about an event trace
\* of the run returns that trace's spike times: of the whole run when no
\* stimulus_index is given, of stimulus presentation i when it is.
C11_SpikesOfAskedTrace ==
    (ephys.last.called /\ check_trace_event(file, AskedTrace)) =>
        IF ephys.last.stimulus_index = None
        THEN ephys.last.out =
               Return(Some(trace_data(file, ephys.run, ByName(AskedTrace[1]), "zero").value.data))
        ELSE check_stimulus(ephys.stimuli, ephys.last.stimulus_index[1]) =>
               ephys.last.out =
                 Return(Some(trace_data(StimulusFile(file, ephys),
                                        ephys.stimuli[ephys.last.stimulus_index[1] + 1],
                                        ByName(AskedTrace[1]), "zero").value.data))

\* C11, the part about the cache: a spikes call with a stimulus_index leaves
\* self._spike_times as it was.
C11_StimulusCallsKeepCache ==
    [][(ephys.made /\ ephys'.last.stimulus_index # None)
          => ephys'.spike_times = ephys.spike_times]_vars

====
